---- MODULE Spec2Model ----
(***************************************************************************)
(* Model of the reforger-discord monitoring bot.                           *)
(*                                                                         *)
(*   Spec    TMuxMonitorBot of src/bot.py: the monitor_tmux tick (status   *)
(*           message replacement, ban feed reconciliation on the id list   *)
(*           posted_bans), the slash commands that write the config, and   *)
(*           process crash/restart against the persisted config file.      *)
(*   SpecBM  the BattleMetrics cog of src/battlemetrics.py: the ban check  *)
(*           loop with the LAST_BAN_TIMESTAMP cursor.                      *)
(*                                                                         *)
(* A coroutine is cut at its awaits: every value of pc (bm_pc) is an await *)
(* the coroutine is suspended in, and one action runs the code from the    *)
(* resumption of one await to the next await or to the end of the tick.    *)
(* Command handlers and a process crash can interleave at these points.    *)
(* None is modelled as "None" for strings and as 0 for message ids and     *)
(* timestamps (both are tested by truthiness in the code).                 *)
(***************************************************************************)
EXTENDS Integers, Sequences, FiniteSets, TLC

\* ------------------------------------------------------------------ bounds
MaxTicks == 2          \* monitor_tmux iterations started over the lifetime
MaxDisturb == 1        \* commands, crashes and failed file writes over the lifetime
MaxFeed == 2           \* bans in one feed response
MaxBMTicks == 2        \* check_battlemetrics_bans iterations started
MaxTs == 2             \* distinct ban timestamps
MaxLines == 4          \* lines of a console capture built from SmallLines
MaxTags == 2           \* [C<n>] client tags on one line
MaxLoss == 2           \* PktLoss entries on one line
MaxIdentifiers == 3     \* entries of one ban's identifiers list
MaxCommands == 3       \* commands and failed writes while monitor_tmux is not running
MaxPresenceTicks == 3  \* iterations followed for the player count of the presence
MaxPresenceLines == 2  \* lines of a capture in those iterations

\* ------------------------------------------------------------- value sets
Users == {"u1", "u2"}
Roles == {"r1", "r2"}
\* member.roles of each user
member_roles == [u \in Users |-> IF u = "u2" THEN {"r1"} ELSE {}]
Channels == {"c1", "c2"}
BanIds == {"a", "b"}
NoMsg == 0
MsgIds == 1..MaxTicks
NoTimestamp == 0
Timestamps == 1..MaxTs

\* One ban of the cog's feed: its id and attributes.timestamp.
BMBans == [id : BanIds, timestamp : Timestamps]

\* One ban of the feed: its id, and whether its payload formats without
\* raising (ban['attributes'] present, 'expires' a valid ISO date).
Bans == [id : BanIds, ok : {TRUE}] \cup {[id |-> "b", ok |-> FALSE]}

RECURSIVE SeqsUpTo(_, _)
SeqsUpTo(S, n) ==
    IF n = 0 THEN {<<>>}
    ELSE LET shorter == SeqsUpTo(S, n - 1)
         IN  shorter \cup {Append(s, x) : s \in {t \in shorter : Len(t) = n - 1}, x \in S}

Feeds == SeqsUpTo(Bans, MaxFeed)
BMFeeds == SeqsUpTo(BMBans, MaxFeed)

Range(s) == {s[i] : i \in 1..Len(s)}

\* --------------------------------------------------------------- state
VARIABLES
    config,            \* TMuxMonitorBot.config (dict)
    last_message_id,   \* TMuxMonitorBot.last_message_id
    file,              \* contents of CONFIG_FILE
    pc,                \* await monitor_tmux is suspended in, or "idle"
    perf_ch,           \* local performance_channel of the running tick
    new_msg,           \* message delivered by channel.send, not yet returned
    bans_data,         \* local bans_data['data'] of the running handle_bans
    idx,               \* position of handle_bans's for loop (1-based)
    live,              \* status messages present in each channel
    next_id,           \* next message id the platform hands out
    everSent,          \* history: ids a ban notification was ever delivered for
    epochSent,         \* history: ids notified since the last clear-bans/restart
    durable,           \* history: ids written to the file since the last clear-bans
    rewrote,           \* history: a command's save replaced the file's last_message_id by another value
    allOk,             \* history: every delete and send succeeded, every tick completed
    tk,                \* history: deletes/sends of the current (or last) tick
    call,              \* history: the current (or last) handle_bans call
    nTicks,            \* iterations of monitor_tmux started
    nRestart,          \* process restarts
    nClear,            \* clear-bans commands carried out
    nDisturb,          \* commands + restarts + failed writes
    bm_config,         \* BattleMetrics.config (dict)
    bm_file,           \* contents of the cog's CONFIG_FILE
    bm_pc,             \* await the ban check loop is suspended in, or "idle"
    bm_data,           \* ban_data['data'] of the running process_new_bans
    bm_idx,            \* position of process_new_bans's for loop (1-based)
    most_recent_timestamp, \* local of process_new_bans
    bm_sent,           \* history: the bans delivered by the current call, in order
    nBMTicks,
    bm_tk,             \* history: the GET's status and the validation calls of the current (or last) check
    bm_reply,          \* what the cog's last configuration command answered
    output,            \* monitor_tmux's local output: the captured lines
    parsed_data,       \* monitor_tmux's local parsed_data (with 'players')
    parse_pc,          \* "captured" before, "parsed" after lines 195-213 ran
    identifiers,       \* handle_bans's local identifiers of one ban
    identifier,        \* handle_bans's local identifier of that ban
    id_pc,             \* "given" before, "named" after lines 145-154 ran
    current_players,   \* TMuxMonitorBot.current_players
    presence,          \* the player count of the activity the platform shows (NoPresence: none)
    pr_pc,             \* "presence" while `await self.update_presence()` is pending
    pr_tk,             \* history: parse, player count and update_presence calls of the iteration
    last_players,      \* history: player count of the last iteration whose parse succeeded
    nPresenceTicks,    \* iterations started in the presence specification
    oc_config,         \* OwnerCommands.config (dict)
    oc_file,           \* contents of the OwnerCommands cog's config file
    refused            \* history: the kind of the last command that was refused

botVars == <<config, last_message_id, file, pc, perf_ch, new_msg, bans_data, idx,
             live, next_id>>
histVars == <<everSent, epochSent, durable, rewrote, allOk, tk, call>>
cntVars == <<nTicks, nRestart, nClear, nDisturb>>

bmVars == <<bm_config, bm_file, bm_pc, bm_data, bm_idx, most_recent_timestamp,
            bm_sent, nBMTicks, bm_tk, bm_reply>>

parseVars == <<output, parsed_data, parse_pc>>

fmtVars == <<identifiers, identifier, id_pc>>

\* The locals followed on their own, outside the iterations of Spec.
presVars == <<current_players, presence, pr_pc, pr_tk, last_players, nPresenceTicks>>

localVars == <<parseVars, fmtVars, presVars>>

ocVars == <<oc_config, oc_file>>

\* What no step of monitor_tmux or of the ban check loop touches.
sideVars == <<localVars, ocVars, refused>>

botSide == <<botVars, histVars, cntVars, sideVars>>

vars == <<botSide, bmVars>>

\* ------------------------------------------------------- config and file

\* load_config's default_config (src/bot.py:50-60)
default_config ==
    [fps_channel |-> "None", bans_channel |-> "None", owner_id |-> "None",
     admin_role |-> "None", service_name |-> "arma3server",
     last_message_id |-> NoMsg, posted_bans |-> <<>>,
     battlemetrics_token |-> "None", battlemetrics_server_id |-> "None"]

\* A config file left by an earlier run in which the owner configured the bot.
configured_file ==
    [default_config EXCEPT !.fps_channel = "c1", !.bans_channel = "c2",
                           !.owner_id = "u1", !.admin_role = "r1",
                           !.battlemetrics_token = "tok",
                           !.battlemetrics_server_id = "srv"]

\* A config file in which only the performance channel was set.
status_file == [default_config EXCEPT !.fps_channel = "c1", !.owner_id = "u1"]

\* A load that drops the saved ban list.
load_config_without_bans(f) == [f EXCEPT !.posted_bans = <<>>]

\* load_config: the defaults updated with the saved file. A missing file and a
\* file holding the defaults load alike, so `file` always is a record.
load_config(f) == f

\* A document that keeps the last_message_id the dict already held.
save_config_doc_as_held(cfg, lmid) == cfg

\* save_config's first statement: the dict written is config with last_message_id.
save_config_doc(cfg, lmid) == [cfg EXCEPT !.last_message_id = lmid]

\* __init__ (src/bot.py:33-34): load_config stores the file's last_message_id in
\* self.last_message_id, and the next statement of __init__ sets it to None.
constructed_last_message_id(f) == NoMsg

\* history of one iteration: the delete's outcome, the numbers of deletes and
\* sends, whether fetch_bans was called, and whether last_message_id named a
\* message that no longer exists when the iteration began.
TickInit == [del |-> "none", dels |-> 0, sends |-> 0, fetched |-> FALSE, stale |-> FALSE]
\* history of one handle_bans call: the list at its start, the ids of the
\* response, the ids it should notify (NewIds), the ids it notified, and
\* whether nothing failed or interfered.
CallInit ==
    [phase |-> "none", start |-> <<>>, ids |-> {}, new |-> <<>>, emitted |-> <<>>,
     clean |-> TRUE]

BotInit ==
    /\ file \in {default_config, configured_file, status_file}
    /\ config = load_config(file)
    /\ last_message_id = constructed_last_message_id(file)
    /\ pc = "idle"
    /\ perf_ch = "None"
    /\ new_msg = NoMsg
    /\ bans_data = <<>>
    /\ idx = 0
    /\ live = [c \in Channels |-> {}]
    /\ next_id = 1
    /\ everSent = {}
    /\ epochSent = {}
    /\ durable = {}
    /\ rewrote = FALSE
    /\ allOk = TRUE
    /\ tk = TickInit
    /\ call = CallInit
    /\ nTicks = 0 /\ nRestart = 0 /\ nClear = 0 /\ nDisturb = 0

\* ------------------------------------------------------------ save_config

\* save_config (src/bot.py:71-75) on the dict cfg: the dict gets last_message_id,
\* then the file is written. wOk = FALSE is a write that raises (the file keeps
\* its content, the dict is already updated, the exception reaches the caller).
save_config_file(cfg, lmid, wOk) ==
    IF wOk THEN save_config_doc(cfg, lmid) ELSE file

\* n more disturbances happen in this step.
\* Disturbances explored: more while monitor_tmux is not running, where the
\* commands are followed in longer sequences, and one more while neither a bans
\* channel nor a feed token is configured, where an iteration is the status
\* publication alone.
DisturbsAllowed ==
    IF pc = "stopped" THEN MaxCommands
    ELSE IF config.bans_channel = "None" /\ config.battlemetrics_token = "None"
         THEN MaxDisturb + 1
         ELSE MaxDisturb

Disturb(n) == nDisturb + n <= DisturbsAllowed /\ nDisturb' = nDisturb + n

WriteFailure(wOk) == IF wOk THEN 0 ELSE 1

\* history: the ids a successful write has put in the file
DurableAfter(d, cfg, wOk) == IF wOk THEN d \cup Range(cfg.posted_bans) ELSE d

\* ------------------------------------------------------------- handle_bans

PostedIds(cfg) == Range(cfg.posted_bans)

\* history (the reconcile contract): the ids of feed, in feed order, that are not in seen: first occurrences only.
RECURSIVE NewIds(_, _)
NewIds(feed, seen) ==
    IF feed = <<>> THEN <<>>
    ELSE IF Head(feed).id \in seen THEN NewIds(Tail(feed), seen)
    ELSE <<Head(feed).id>> \o NewIds(Tail(feed), seen \cup {Head(feed).id})

\* The loop without the membership test of src/bot.py:137.
RECURSIVE NextSendNoDedup(_, _, _)
NextSendNoDedup(feed, i, posted) ==
    IF i > Len(feed) THEN i
    ELSE IF ~feed[i].ok THEN NextSendNoDedup(feed, i + 1, posted)
    ELSE i

\* The for loop of handle_bans from position i up to its next `await
\* channel.send`: a ban whose id is in posted_bans is skipped (continue), a ban
\* whose formatting raises is logged and skipped (except ... continue). The
\* result is the position of the ban about to be sent, or Len(feed) + 1.
RECURSIVE NextSend(_, _, _)
NextSend(feed, i, posted) ==
    IF i > Len(feed) THEN i
    ELSE IF feed[i].id \in posted THEN NextSend(feed, i + 1, posted)
    ELSE IF ~feed[i].ok THEN NextSend(feed, i + 1, posted)
    ELSE i

\* history: some ban between positions i and j - 1 raised while being formatted
Raised(feed, i, j, posted) ==
    \E k \in i..(j - 1) : feed[k].id \notin posted /\ ~feed[k].ok

\* The tick is over: monitor_tmux returns and its locals are gone.
EndTick ==
    /\ pc' = "idle"
    /\ perf_ch' = "None"
    /\ new_msg' = NoMsg
    /\ bans_data' = <<>>
    /\ idx' = 0

\* handle_bans continues its loop at position i with the list `posted`.
ContinueBans(feed, i, cfg, failed) ==
    LET k == NextSend(feed, i, PostedIds(cfg))
        c == [call EXCEPT !.clean = @ /\ ~failed /\ ~Raised(feed, i, k, PostedIds(cfg))]
    IN  IF k > Len(feed)
        THEN /\ EndTick
             /\ call' = [c EXCEPT !.phase = "ended"]
        ELSE /\ pc' = "ban_send"
             /\ idx' = k
             /\ bans_data' = feed
             /\ call' = c
             /\ UNCHANGED <<perf_ch, new_msg>>

\* ------------------------------------------------------------ monitor_tmux

Captures == {"capture_error", "no_fps_line", "parse_failed", "parsed"}

BansConfigured(cfg) ==
    /\ cfg.battlemetrics_token # "None"
    /\ cfg.battlemetrics_server_id # "None"
    /\ cfg.bans_channel # "None"

\* Iterations explored: one more while no ban feed is configured, where an
\* iteration is the status publication alone.
TicksAllowed(cfg) == IF BansConfigured(cfg) THEN MaxTicks ELSE MaxTicks + 1

\* last_message_id names a message that exists in no channel.
StaleReference ==
    last_message_id # NoMsg /\ \A c \in Channels : last_message_id \notin live[c]

\* An iteration started by the timer alone, without waiting for the previous
\* invocation to return.
TickStartReentrant(cap, found) ==
    /\ pc # "stopped"
    /\ UNCHANGED <<bmVars, sideVars>>
    /\ nTicks < TicksAllowed(config)
    /\ nTicks' = nTicks + 1
    /\ call' = CallInit
    /\ IF config.fps_channel # "None" /\ cap = "parsed"
       THEN IF found
            THEN /\ perf_ch' = config.fps_channel
                 /\ pc' = IF last_message_id # NoMsg THEN "delete" ELSE "send"
                 /\ tk' = [TickInit EXCEPT !.stale = StaleReference]
            ELSE /\ pc' = IF BansConfigured(config) THEN "fetch" ELSE "idle"
                 /\ tk' = [TickInit EXCEPT !.stale = StaleReference,
                                            !.fetched = BansConfigured(config)]
                 /\ UNCHANGED perf_ch
       ELSE /\ tk' = [TickInit EXCEPT !.stale = StaleReference]
            /\ UNCHANGED <<perf_ch, pc>>
    /\ UNCHANGED <<config, last_message_id, file, new_msg, bans_data, idx, live, next_id>>
    /\ UNCHANGED <<everSent, epochSent, durable, rewrote, allOk>>
    /\ UNCHANGED <<nRestart, nClear, nDisturb>>

\* Start of an iteration: the early return without an fps channel, the console
\* capture and parse (outcome cap), then either the first await of the
\* publication or, when get_channel(fps_channel) finds no channel (found =
\* FALSE), the ban part up to `await self.fetch_bans()`.
TickStart(cap, found) ==
    /\ pc = "idle"
    /\ UNCHANGED <<bmVars, sideVars>>
    /\ nTicks < TicksAllowed(config)
    /\ nTicks' = nTicks + 1
    /\ call' = CallInit
    /\ IF config.fps_channel # "None" /\ cap = "parsed"
       THEN IF found
            THEN /\ perf_ch' = config.fps_channel
                 /\ pc' = IF last_message_id # NoMsg THEN "delete" ELSE "send"
                 /\ tk' = [TickInit EXCEPT !.stale = StaleReference]
            ELSE /\ pc' = IF BansConfigured(config) THEN "fetch" ELSE "idle"
                 /\ tk' = [TickInit EXCEPT !.stale = StaleReference,
                                            !.fetched = BansConfigured(config)]
                 /\ UNCHANGED perf_ch
       ELSE /\ tk' = [TickInit EXCEPT !.stale = StaleReference]
            /\ UNCHANGED <<perf_ch, pc>>
    /\ UNCHANGED <<config, last_message_id, file, new_msg, bans_data, idx, live, next_id>>
    /\ UNCHANGED <<everSent, epochSent, durable, rewrote, allOk>>
    /\ UNCHANGED <<nRestart, nClear, nDisturb>>

DeleteOutcomes == {"ok", "notfound", "error"}

\* A delete whose failure would end the iteration (no try around lines 223-226).
DeletePreviousOrAbort(outcome) ==
    /\ pc = "delete"
    /\ UNCHANGED <<bmVars, sideVars>>
    /\ IF last_message_id \in live[perf_ch]
       THEN outcome \in {"ok", "error"}
       ELSE outcome \in {"notfound", "error"}
    /\ live' = IF outcome = "ok"
               THEN [live EXCEPT ![perf_ch] = @ \ {last_message_id}]
               ELSE live
    /\ IF outcome = "error"
       THEN EndTick
       ELSE pc' = "send" /\ UNCHANGED <<perf_ch, new_msg, bans_data, idx>>
    /\ tk' = [tk EXCEPT !.del = outcome, !.dels = @ + 1]
    /\ allOk' = (allOk /\ outcome = "ok")
    /\ UNCHANGED <<config, last_message_id, file, next_id>>
    /\ UNCHANGED <<everSent, epochSent, durable, rewrote, call>>
    /\ UNCHANGED cntVars

\* await fetch_message(last_message_id) and await previous_message.delete():
\* NotFound and any other exception are caught, the send follows either way.
DeletePrevious(outcome) ==
    /\ pc = "delete"
    /\ UNCHANGED <<bmVars, sideVars>>
    /\ IF last_message_id \in live[perf_ch]
       THEN outcome \in {"ok", "error"}
       ELSE outcome \in {"notfound", "error"}
    /\ live' = IF outcome = "ok"
               THEN [live EXCEPT ![perf_ch] = @ \ {last_message_id}]
               ELSE live
    /\ pc' = "send"
    /\ tk' = [tk EXCEPT !.del = outcome, !.dels = @ + 1]
    /\ allOk' = (allOk /\ outcome = "ok")
    /\ UNCHANGED <<config, last_message_id, file, perf_ch, new_msg, bans_data, idx, next_id>>
    /\ UNCHANGED <<everSent, epochSent, durable, rewrote, call>>
    /\ UNCHANGED cntVars

\* A send whose exception no except clause catches: it leaves monitor_tmux and
\* tasks.loop stops the loop.
SendStatusEscapes(ok) ==
    /\ pc = "send"
    /\ UNCHANGED <<bmVars, sideVars>>
    /\ IF ok
       THEN /\ live' = [live EXCEPT ![perf_ch] = @ \cup {next_id}]
            /\ new_msg' = next_id
            /\ next_id' = next_id + 1
            /\ pc' = "sent"
            /\ tk' = [tk EXCEPT !.sends = @ + 1]
            /\ UNCHANGED <<perf_ch, bans_data, idx, allOk>>
       ELSE /\ pc' = "failed"
            /\ allOk' = FALSE
            /\ UNCHANGED <<live, next_id, tk, perf_ch, new_msg, bans_data, idx>>
    /\ UNCHANGED <<config, last_message_id, file>>
    /\ UNCHANGED <<everSent, epochSent, durable, rewrote, call>>
    /\ UNCHANGED cntVars

\* A send in a try of its own: after a failure the iteration goes on with the
\* ban part.
SendStatusThenBans(ok) ==
    /\ pc = "send"
    /\ UNCHANGED <<bmVars, sideVars>>
    /\ IF ok
       THEN /\ live' = [live EXCEPT ![perf_ch] = @ \cup {next_id}]
            /\ new_msg' = next_id
            /\ next_id' = next_id + 1
            /\ pc' = "sent"
            /\ tk' = [tk EXCEPT !.sends = @ + 1]
            /\ UNCHANGED <<perf_ch, bans_data, idx, allOk>>
       ELSE /\ pc' = (IF BansConfigured(config) THEN "fetch" ELSE "idle")
            /\ tk' = [tk EXCEPT !.fetched = BansConfigured(config)]
            /\ allOk' = FALSE
            /\ UNCHANGED <<live, next_id, perf_ch, new_msg, bans_data, idx>>
    /\ UNCHANGED <<config, last_message_id, file>>
    /\ UNCHANGED <<everSent, epochSent, durable, rewrote, call>>
    /\ UNCHANGED cntVars

\* await performance_channel.send(perf_message): the platform creates the
\* message, or the call raises and the outer except ends the tick.
SendStatus(ok) ==
    /\ pc = "send"
    /\ UNCHANGED <<bmVars, sideVars>>
    /\ IF ok
       THEN /\ live' = [live EXCEPT ![perf_ch] = @ \cup {next_id}]
            /\ new_msg' = next_id
            /\ next_id' = next_id + 1
            /\ pc' = "sent"
            /\ tk' = [tk EXCEPT !.sends = @ + 1]
            /\ UNCHANGED <<perf_ch, bans_data, idx, allOk>>
       ELSE /\ EndTick
            /\ allOk' = FALSE
            /\ UNCHANGED <<live, next_id, tk>>
    /\ UNCHANGED <<config, last_message_id, file>>
    /\ UNCHANGED <<everSent, epochSent, durable, rewrote, call>>
    /\ UNCHANGED cntVars

\* The send returned: last_message_id is the new message, save_config, then the
\* ban part up to `await self.fetch_bans()`. A failed write raises out of the
\* try block and ends the tick.
RecordStatus(wOk) ==
    /\ pc = "sent"
    /\ UNCHANGED <<bmVars, sideVars>>
    /\ Disturb(WriteFailure(wOk))
    /\ last_message_id' = new_msg
    /\ config' = save_config_doc(config, new_msg)
    /\ file' = save_config_file(config, new_msg, wOk)
    /\ durable' = DurableAfter(durable, config, wOk)
    /\ UNCHANGED rewrote
    /\ IF wOk /\ BansConfigured(config)
       THEN /\ pc' = "fetch"
            /\ new_msg' = NoMsg
            /\ tk' = [tk EXCEPT !.fetched = TRUE]
            /\ UNCHANGED <<perf_ch, bans_data, idx>>
       ELSE EndTick /\ UNCHANGED tk
    /\ UNCHANGED <<live, next_id>>
    /\ UNCHANGED <<everSent, epochSent, allOk, call>>
    /\ UNCHANGED <<nTicks, nRestart, nClear>>

\* await fetch_bans() returned None (incomplete config, status # 200, exception).
FetchFailed ==
    /\ pc = "fetch"
    /\ UNCHANGED <<bmVars, sideVars>>
    /\ EndTick
    /\ UNCHANGED <<config, last_message_id, file, live, next_id>>
    /\ UNCHANGED histVars
    /\ UNCHANGED cntVars

\* await fetch_bans() returned the feed response; handle_bans runs up to its
\* first `await channel.send`.
FetchBans(feed) ==
    /\ pc = "fetch"
    /\ UNCHANGED <<bmVars, sideVars>>
    /\ LET k == NextSend(feed, 1, PostedIds(config))
           c == [phase |-> "running", start |-> config.posted_bans,
                 ids |-> {feed[j].id : j \in 1..Len(feed)},
                 new |-> NewIds(feed, PostedIds(config)),
                 emitted |-> <<>>,
                 clean |-> ~Raised(feed, 1, k, PostedIds(config))]
       IN  IF k > Len(feed)
           THEN /\ EndTick
                /\ call' = [c EXCEPT !.phase = "ended"]
           ELSE /\ pc' = "ban_send"
                /\ idx' = k
                /\ bans_data' = feed
                /\ call' = c
                /\ UNCHANGED <<perf_ch, new_msg>>
    /\ UNCHANGED <<config, last_message_id, file, live, next_id>>
    /\ UNCHANGED <<everSent, epochSent, durable, rewrote, allOk, tk>>
    /\ UNCHANGED cntVars

\* A send whose failure ends handle_bans.
SendBanAborting(ok) ==
    /\ pc = "ban_send"
    /\ UNCHANGED <<bmVars, sideVars>>
    /\ LET ban_id == bans_data[idx].id
       IN  IF ok
           THEN /\ everSent' = everSent \cup {ban_id}
                /\ epochSent' = epochSent \cup {ban_id}
                /\ call' = [call EXCEPT !.emitted = Append(@, ban_id)]
                /\ pc' = "ban_sent"
                /\ UNCHANGED <<perf_ch, new_msg, bans_data, idx>>
           ELSE /\ EndTick
                /\ call' = [call EXCEPT !.phase = "ended", !.clean = FALSE]
                /\ UNCHANGED <<everSent, epochSent>>
    /\ UNCHANGED <<config, last_message_id, file, live, next_id>>
    /\ UNCHANGED <<durable, rewrote, allOk, tk>>
    /\ UNCHANGED cntVars

\* await channel.send(ban_message) for the ban at idx: the notification is
\* delivered, or the call raises and the loop continues with the next ban.
SendBan(ok) ==
    /\ pc = "ban_send"
    /\ UNCHANGED <<bmVars, sideVars>>
    /\ LET ban_id == bans_data[idx].id
       IN  IF ok
           THEN /\ everSent' = everSent \cup {ban_id}
                /\ epochSent' = epochSent \cup {ban_id}
                /\ call' = [call EXCEPT !.emitted = Append(@, ban_id)]
                /\ pc' = "ban_sent"
                /\ UNCHANGED <<perf_ch, new_msg, bans_data, idx>>
           ELSE /\ ContinueBans(bans_data, idx + 1, config, TRUE)
                /\ UNCHANGED <<everSent, epochSent>>
    /\ UNCHANGED <<config, last_message_id, file, live, next_id>>
    /\ UNCHANGED <<durable, rewrote, allOk, tk>>
    /\ UNCHANGED cntVars

\* Recording by assignment, and recording at the front, instead of append.
record_ban_replacing(posted, ban_id) == <<ban_id>>

record_ban_prepending(posted, ban_id) == <<ban_id>> \o posted

\* The ban list after handle_bans recorded ban_id (src/bot.py:174)
record_ban(posted, ban_id) == Append(posted, ban_id)

\* Recording that keeps the id in memory only when the file was written.
RecordBanWhenWritten(wOk) ==
    /\ pc = "ban_sent"
    /\ UNCHANGED <<bmVars, sideVars>>
    /\ Disturb(WriteFailure(wOk))
    /\ LET ban_id == bans_data[idx].id
           cfg == IF wOk
                  THEN save_config_doc(
                           [config EXCEPT !.posted_bans = record_ban(@, ban_id)],
                           last_message_id)
                  ELSE config
       IN  /\ config' = cfg
           /\ file' = save_config_file(cfg, last_message_id, wOk)
           /\ durable' = DurableAfter(durable, cfg, wOk)
           /\ UNCHANGED rewrote
           /\ ContinueBans(bans_data, idx + 1, cfg, ~wOk)
    /\ UNCHANGED <<last_message_id, live, next_id>>
    /\ UNCHANGED <<everSent, epochSent, allOk, tk>>
    /\ UNCHANGED <<nTicks, nRestart, nClear>>

\* The send returned: the id is appended to posted_bans and save_config writes
\* the file; a failed write is caught by the loop's except, which continues.
RecordBan(wOk) ==
    /\ pc = "ban_sent"
    /\ UNCHANGED <<bmVars, sideVars>>
    /\ Disturb(WriteFailure(wOk))
    /\ LET ban_id == bans_data[idx].id
           cfg == save_config_doc(
                      [config EXCEPT !.posted_bans = record_ban(@, ban_id)],
                      last_message_id)
       IN  /\ config' = cfg
           /\ file' = save_config_file(cfg, last_message_id, wOk)
           /\ durable' = DurableAfter(durable, cfg, wOk)
           /\ UNCHANGED rewrote
           /\ ContinueBans(bans_data, idx + 1, cfg, ~wOk)
    /\ UNCHANGED <<last_message_id, live, next_id>>
    /\ UNCHANGED <<everSent, epochSent, allOk, tk>>
    /\ UNCHANGED <<nTicks, nRestart, nClear>>

\* ---------------------------------------------------------- slash commands

\* has_role (src/bot.py:283-286)
has_role(member, role_id) ==
    IF role_id = "None" THEN FALSE ELSE role_id \in member_roles[member]

\* An ownership test that lets everyone pass while no owner is set.
is_owner_or_unset(user_id) == config.owner_id = "None" \/ user_id = config.owner_id

\* is_owner (src/bot.py:288-289): str(user_id) == str(owner_id); no user id
\* prints as "None".
is_owner(user_id) == user_id = config.owner_id

\* A handler that changed the dict to cfg and calls save_config. The handler is
\* synchronous up to here, so it runs between two steps of the tick.
CommandSaves(cfg, wOk) ==
    /\ Disturb(1 + WriteFailure(wOk))
    /\ config' = save_config_doc(cfg, last_message_id)
    /\ file' = save_config_file(cfg, last_message_id, wOk)
    /\ rewrote' = (rewrote \/ (wOk /\ file.last_message_id # last_message_id))
    /\ UNCHANGED refused

\* A handler that answers with a refusal and returns.
CommandRefused(kind, wOk) ==
    /\ wOk
    /\ Disturb(1)
    /\ refused' = kind
    /\ UNCHANGED <<config, file, rewrote>>

CommandFrame ==
    /\ UNCHANGED <<bmVars, localVars, ocVars>>
    /\ UNCHANGED <<last_message_id, pc, perf_ch, new_msg, bans_data, idx, live, next_id>>
    /\ UNCHANGED <<everSent, allOk, tk>>
    /\ UNCHANGED <<nTicks, nRestart>>

\* A command other than clear-bans: the history of the ban list goes on.
KeepsBans(wOk) ==
    /\ durable' = (IF config' # config \/ file' # file
                   THEN DurableAfter(durable, config', wOk) ELSE durable)
    /\ UNCHANGED <<epochSent, call, nClear>>

set_owner(user_id, wOk) ==
    /\ CommandFrame
    /\ IF config.owner_id # "None"
       THEN CommandRefused("set-owner", wOk)
       ELSE CommandSaves([config EXCEPT !.owner_id = user_id], wOk)
    /\ KeepsBans(wOk)

set_fps_channel(channel_id, wOk) ==
    /\ CommandFrame
    /\ CommandSaves([config EXCEPT !.fps_channel = channel_id], wOk)
    /\ KeepsBans(wOk)

set_bans_channel(user, channel_id, wOk) ==
    /\ CommandFrame
    /\ IF ~has_role(user, config.admin_role) /\ ~is_owner(user)
       THEN CommandRefused("privileged", wOk)
       ELSE CommandSaves([config EXCEPT !.bans_channel = channel_id], wOk)
    /\ KeepsBans(wOk)

set_admin_role(user, role, wOk) ==
    /\ CommandFrame
    /\ IF ~is_owner(user)
       THEN CommandRefused("privileged", wOk)
       ELSE CommandSaves([config EXCEPT !.admin_role = role], wOk)
    /\ KeepsBans(wOk)

set_service(user, service_name, wOk) ==
    /\ CommandFrame
    /\ IF ~has_role(user, config.admin_role)
       THEN CommandRefused("privileged", wOk)
       ELSE CommandSaves([config EXCEPT !.service_name = service_name], wOk)
    /\ KeepsBans(wOk)

set_battlemetrics(user, api_token, server_id, wOk) ==
    /\ CommandFrame
    /\ IF ~is_owner(user)
       THEN CommandRefused("privileged", wOk)
       ELSE CommandSaves([config EXCEPT !.battlemetrics_token = api_token,
                                        !.battlemetrics_server_id = server_id], wOk)
    /\ KeepsBans(wOk)

\* clear-bans: posted_bans becomes a new empty list, then save_config.
clear_bans(user, wOk) ==
    /\ CommandFrame
    /\ IF ~is_owner(user)
       THEN /\ CommandRefused("privileged", wOk)
            /\ UNCHANGED <<epochSent, durable, call, nClear>>
       ELSE /\ CommandSaves([config EXCEPT !.posted_bans = <<>>], wOk)
            /\ epochSent' = {}
            /\ durable' = {}
            /\ call' = [call EXCEPT !.clean = FALSE]
            /\ nClear' = nClear + 1

\* ------------------------------------------------------- crash and restart

\* The process dies at any point and is started again: __init__ builds the bot
\* from the config file; the channels keep their messages.
CrashRestart ==
    /\ Disturb(1)
    /\ UNCHANGED <<bmVars, sideVars>>
    /\ nRestart' = nRestart + 1
    /\ config' = load_config(file)
    /\ last_message_id' = constructed_last_message_id(file)
    /\ EndTick
    /\ epochSent' = {}
    /\ allOk' = (allOk /\ pc = "idle")
    /\ tk' = TickInit
    /\ call' = CallInit
    /\ UNCHANGED <<file, live, next_id, everSent, durable, rewrote>>
    /\ UNCHANGED <<nTicks, nClear>>

\* ------------------------------------------------- BattleMetrics (the cog)

\* load_config's default_config (src/battlemetrics.py:34-39). The dict has no
\* SERVER_ID key: config.get('SERVER_ID') is None, modelled like '' (falsy).
bm_default_config ==
    [BATTLEMETRICS_TOKEN |-> "", ORGANIZATION_ID |-> "", DISCORD_BAN_CHANNEL |-> "",
     SERVER_ID |-> "", LAST_BAN_TIMESTAMP |-> NoTimestamp]

\* A config file to which the operator added the token, the channel and the
\* SERVER_ID key by hand.
bm_edited_file ==
    [bm_default_config EXCEPT !.BATTLEMETRICS_TOKEN = "tok",
                              !.DISCORD_BAN_CHANNEL = "c2", !.SERVER_ID = "srv"]

\* load_config (src/battlemetrics.py:24-46): the file's dict as it is.
bm_load_config(f) == f

\* history of one check_battlemetrics_bans call: the GET's status ("skipped"
\* when the guard returned before it), the validation calls, and what
\* bmdiagnose would have reported about the config when the call began.
BMTickInit == [status |-> "none", validations |-> 0, diagnosed |-> FALSE]

BMInit ==
    /\ bm_file \in {bm_default_config, bm_edited_file}
    /\ bm_config = bm_load_config(bm_file)
    /\ bm_pc = "idle"
    /\ bm_data = <<>>
    /\ bm_idx = 0
    /\ most_recent_timestamp = NoTimestamp
    /\ bm_sent = <<>>
    /\ nBMTicks = 0
    /\ bm_tk = BMTickInit
    /\ bm_reply = "none"

\* config_complete of diagnose_battlemetrics (src/battlemetrics.py:310-314).
bm_diagnose_complete(cfg) ==
    /\ cfg.BATTLEMETRICS_TOKEN # ""
    /\ cfg.ORGANIZATION_ID # ""
    /\ cfg.DISCORD_BAN_CHANNEL # ""

\* A guard that asks for the token and the channel only.
bm_config_complete_without_server(cfg) ==
    /\ cfg.BATTLEMETRICS_TOKEN # ""
    /\ cfg.DISCORD_BAN_CHANNEL # ""

\* The completeness guard of check_battlemetrics_bans.
bm_config_complete(cfg) ==
    /\ cfg.BATTLEMETRICS_TOKEN # ""
    /\ cfg.SERVER_ID # ""
    /\ cfg.DISCORD_BAN_CHANNEL # ""

\* A save that replaces self.config before it writes the file.
bm_save_config_memory_first(updated_config, wOk) ==
    /\ bm_file' = (IF wOk THEN updated_config ELSE bm_file)
    /\ bm_config' = updated_config

\* save_config(updated_config): the file is written and self.config replaced,
\* or the write raises, is caught, and neither changes.
bm_save_config(updated_config, wOk) ==
    /\ bm_file' = (IF wOk THEN updated_config ELSE bm_file)
    /\ bm_config' = (IF wOk THEN updated_config ELSE bm_config)

\* `timestamp > most_recent_timestamp` of process_new_bans, with its None test.
bm_most_recent(most_recent, timestamp) ==
    IF most_recent = NoTimestamp \/ timestamp > most_recent
    THEN timestamp ELSE most_recent

\* check_battlemetrics_bans returns: the loop sleeps.
BMEndTick ==
    /\ bm_pc' = "idle"
    /\ bm_data' = <<>>
    /\ bm_idx' = 0
    /\ most_recent_timestamp' = NoTimestamp

\* One iteration of start_ban_check_loop begins: the guard, then the GET.
BMTickStart ==
    /\ bm_pc = "idle"
    /\ UNCHANGED <<botSide, bm_reply>>
    /\ nBMTicks < MaxBMTicks
    /\ nBMTicks' = nBMTicks + 1
    /\ bm_sent' = <<>>
    /\ bm_tk' = [BMTickInit EXCEPT
                     !.status = IF bm_config_complete(bm_config) THEN "none" ELSE "skipped",
                     !.diagnosed = bm_diagnose_complete(bm_config)]
    /\ bm_pc' = (IF bm_config_complete(bm_config) THEN "get" ELSE "idle")
    /\ UNCHANGED <<bm_config, bm_file, bm_data, bm_idx, most_recent_timestamp>>

BMFailures == {"403", "405", "other", "exception"}

\* The GET answered with a status other than 200, or raised.
BMGetFailed(status) ==
    /\ bm_pc = "get"
    /\ UNCHANGED <<botSide, bm_reply>>
    /\ IF status = "403"
       THEN /\ bm_pc' = "validate"
            /\ bm_tk' = [bm_tk EXCEPT !.status = status, !.validations = @ + 1]
            /\ UNCHANGED <<bm_data, bm_idx, most_recent_timestamp>>
       ELSE /\ BMEndTick
            /\ bm_tk' = [bm_tk EXCEPT !.status = status]
    /\ UNCHANGED <<bm_config, bm_file, bm_sent, nBMTicks>>

\* What validate_battlemetrics_token can end with: the ping answered 200
\* (True), answered another status (False), or raised (caught by its own
\* `except Exception`, False).
ValidationResults == {"valid", "invalid", "raised"}

\* A check that asks the feed once more when the token did not validate.
BMValidatedRetry(result) ==
    /\ bm_pc = "validate"
    /\ UNCHANGED <<botSide, bm_reply>>
    /\ IF result = "valid" \/ bm_tk.validations > 1
       THEN BMEndTick
       ELSE bm_pc' = "get" /\ UNCHANGED <<bm_data, bm_idx, most_recent_timestamp>>
    /\ UNCHANGED <<bm_config, bm_file, bm_sent, nBMTicks, bm_tk>>

\* await validate_battlemetrics_token() returned: check_battlemetrics_bans
\* ignores the result and returns (src/battlemetrics.py:112-113).
BMValidated(result) ==
    /\ bm_pc = "validate"
    /\ UNCHANGED <<botSide, bm_reply>>
    /\ BMEndTick
    /\ UNCHANGED <<bm_config, bm_file, bm_sent, nBMTicks, bm_tk>>

\* The GET answered 200 with the feed: process_new_bans up to its first send.
BMGetBans(feed) ==
    /\ bm_pc = "get"
    /\ UNCHANGED <<botSide, bm_reply>>
    /\ IF feed = <<>>
       THEN BMEndTick
       ELSE /\ bm_pc' = "send"
            /\ bm_data' = feed
            /\ bm_idx' = 1
            /\ most_recent_timestamp' = NoTimestamp
    /\ bm_tk' = [bm_tk EXCEPT !.status = "200"]
    /\ UNCHANGED <<bm_config, bm_file, bm_sent, nBMTicks>>

\* process_new_bans goes on at position i with most_recent_timestamp = mrt:
\* the next send, or after the loop the one save of the cursor.
BMContinue(i, mrt, wOk) ==
    IF i <= Len(bm_data)
    THEN /\ bm_pc' = "send"
         /\ bm_idx' = i
         /\ most_recent_timestamp' = mrt
         /\ UNCHANGED <<bm_config, bm_file, bm_data>>
    ELSE /\ BMEndTick
         /\ IF mrt # NoTimestamp
            THEN bm_save_config([bm_config EXCEPT !.LAST_BAN_TIMESTAMP = mrt], wOk)
            ELSE UNCHANGED <<bm_config, bm_file>>

\* await channel.send(embed=embed) for the ban at bm_idx: delivered, or it
\* raises and the per-ban except logs it.
BMSendBan(ok, wOk) ==
    /\ bm_pc = "send"
    /\ UNCHANGED <<botSide, bm_reply>>
    /\ IF ok
       THEN /\ bm_sent' = Append(bm_sent, bm_data[bm_idx])
            /\ bm_pc' = "sent"
            /\ UNCHANGED <<bm_config, bm_file, bm_data, bm_idx, most_recent_timestamp>>
       ELSE /\ BMContinue(bm_idx + 1, most_recent_timestamp, wOk)
            /\ UNCHANGED bm_sent
    /\ UNCHANGED <<nBMTicks, bm_tk>>

\* The send returned: most_recent_timestamp is updated and the loop goes on.
BMAfterSend(wOk) ==
    /\ bm_pc = "sent"
    /\ UNCHANGED <<botSide, bm_reply>>
    /\ BMContinue(bm_idx + 1,
                  bm_most_recent(most_recent_timestamp, bm_data[bm_idx].timestamp),
                  wOk)
    /\ UNCHANGED <<bm_sent, nBMTicks, bm_tk>>

\* A configuration command of the cog (src/battlemetrics.py:221-252): a copy
\* of self.config with one key replaced goes to save_config, and the answer
\* follows its return value. The handler has no await before the save, so it
\* runs between two steps of the ban check; an unloaded cog has no commands.
BMCommandSaves(updated_config, wOk) ==
    /\ bm_pc # "stopped"
    /\ UNCHANGED botSide
    /\ bm_save_config(updated_config, wOk)
    /\ bm_reply' = (IF wOk THEN "updated" ELSE "failed")
    /\ UNCHANGED <<bm_pc, bm_data, bm_idx, most_recent_timestamp, bm_sent,
                   nBMTicks, bm_tk>>

set_bm_token(token, wOk) ==
    BMCommandSaves([bm_config EXCEPT !.BATTLEMETRICS_TOKEN = token], wOk)

set_org_id(org_id, wOk) ==
    BMCommandSaves([bm_config EXCEPT !.ORGANIZATION_ID = org_id], wOk)

set_ban_channel(channel, wOk) ==
    BMCommandSaves([bm_config EXCEPT !.DISCORD_BAN_CHANNEL = channel], wOk)

BMCommand ==
    \/ \E wOk \in BOOLEAN : set_bm_token("tok2", wOk)
    \/ \E wOk \in BOOLEAN : set_org_id("org", wOk)
    \/ \E wOk \in BOOLEAN : set_ban_channel("c2", wOk)

\* ------------------------------------------- console capture and its parse

\* A text is a sequence of characters. Only the characters the patterns of
\* parse_fps_line distinguish occur: digits and the dot.
Digits == {"0", "1", "2", "3", "4", "5", "6", "7", "8", "9"}

DigitVal(c) ==
    CASE c = "0" -> 0 [] c = "1" -> 1 [] c = "2" -> 2 [] c = "3" -> 3
      [] c = "4" -> 4 [] c = "5" -> 5 [] c = "6" -> 6 [] c = "7" -> 7
      [] c = "8" -> 8 [] c = "9" -> 9

\* The longest prefix of text made of characters of `class`: what a greedy
\* `[class]+` at the start of text captures (<<>>: the pattern does not match).
RECURSIVE regex_run(_, _)
regex_run(text, class) ==
    IF text = <<>> \/ Head(text) \notin class THEN <<>>
    ELSE <<Head(text)>> \o regex_run(Tail(text), class)

\* int() of a string of digits
RECURSIVE int_(_)
int_(text) ==
    IF text = <<>> THEN 0
    ELSE int_(SubSeq(text, 1, Len(text) - 1)) * 10 + DigitVal(text[Len(text)])

IsDigit(c) == c \in Digits

\* A float is kept as mantissa m and number of decimals e (m / 10^e) without
\* trailing zero decimals, so that equal floats are equal records.
RECURSIVE FloatOf(_, _)
FloatOf(m, e) ==
    IF e > 0 /\ m % 10 = 0 THEN FloatOf(m \div 10, e - 1) ELSE [m |-> m, e |-> e]

ZeroFloat == FloatOf(0, 0)

\* float() of a string over digits and dots: it raises ValueError ("raised")
\* unless the string has at least one digit and at most one dot.
float_(text) ==
    LET dots == {i \in 1..Len(text) : text[i] = "."}
        digs == SelectSeq(text, IsDigit)
    IN  IF Cardinality(dots) > 1 \/ digs = <<>>
        THEN [raised |-> TRUE, value |-> ZeroFloat]
        ELSE [raised |-> FALSE,
              value |-> FloatOf(int_(digs),
                                IF dots = {} THEN 0
                                ELSE Len(text) - (CHOOSE i \in dots : TRUE))]

\* One labelled number of a line: whether the label ("FPS: ", "Mem: ", ...)
\* occurs, and the characters that follow it up to the next other character.
NoField == [label |-> FALSE, text |-> <<>>]
Field(t) == [label |-> TRUE, text |-> t]

\* "frame time (avg: A ms, min: B ms, max: C ms)"
NoFrame == [label |-> FALSE, avg |-> <<>>, min |-> <<>>, max |-> <<>>]
Frame(a, b, c) == [label |-> TRUE, avg |-> a, min |-> b, max |-> c]

\* "Veh: N (": paren tells whether an opening parenthesis follows the number.
NoVeh == [label |-> FALSE, text |-> <<>>, paren |-> FALSE]
Veh(t, p) == [label |-> TRUE, text |-> t, paren |-> p]

\* One line of the capture, as far as lines 195-213 and parse_fps_line read
\* it: whether the stripped line starts with DEFAULT, its labelled numbers,
\* the number of [C<n>] tags, the numerators of its "PktLoss: n/100" entries,
\* whether it contains NETWORK, and its "Players connected: " number.
Line(d, fps, frame, mem, ai, veh, clients, loss, network, players) ==
    [default |-> d, fps |-> fps, frame |-> frame, mem |-> mem, ai |-> ai,
     veh |-> veh, clients |-> clients, loss |-> loss, network |-> network,
     players |-> players]

\* Numerals as the server writes them.
T60 == <<"6", "0">>
T59_8 == <<"5", "9", ".", "8">>
T12_1 == <<"1", "2", ".", "1">>
T5_0 == <<"5", ".", "0">>
T30_2 == <<"3", "0", ".", "2">>
T4096 == <<"4", "0", "9", "6">>
T10 == <<"1", "0">>
T3 == <<"3">>
T42 == <<"4", "2">>
T7 == <<"7">>
T0 == <<"0">>
T5 == <<"5">>
\* A run of digits and dots that is no number.
T1_2_3 == <<"1", ".", "2", ".", "3">>

FpsFields == {NoField, Field(<<>>), Field(T60), Field(T59_8), Field(T1_2_3)}
FrameFields == {NoFrame, Frame(T12_1, T5_0, T30_2), Frame(T1_2_3, T5_0, T30_2)}
MemFields == {NoField, Field(T4096)}
AiFields == {NoField, Field(T10)}
VehFields == {NoVeh, Veh(T3, TRUE), Veh(T3, FALSE)}
LossSeqs == SeqsUpTo({T0, T5}, MaxLoss)

\* Every performance-summary line over these fields.
PerfLines ==
    {Line(TRUE, fps, frame, mem, ai, veh, clients, loss, FALSE, NoField) :
        fps \in FpsFields, frame \in FrameFields, mem \in MemFields,
        ai \in AiFields, veh \in VehFields, clients \in 0..MaxTags,
        loss \in LossSeqs}

\* A NETWORK line with a player count, and one whose count is no number.
NetLines ==
    {Line(FALSE, NoField, NoFrame, NoField, NoField, NoVeh, 0, <<>>, TRUE, pl) :
        pl \in {Field(T42), Field(<<>>)}}

\* A few lines for captures of several lines: two performance lines with
\* different values, one without a number after "FPS: ", NETWORK lines (one
\* carrying client tags), a line with client tags only, and a line with
\* "FPS: " that does not start with DEFAULT.
SmallLines ==
    {Line(TRUE, Field(T60), Frame(T12_1, T5_0, T30_2), Field(T4096), Field(T10),
          Veh(T3, TRUE), 2, <<T5>>, FALSE, NoField),
     Line(TRUE, Field(T59_8), NoFrame, NoField, NoField, NoVeh, 1, <<T0>>, FALSE,
          NoField),
     Line(TRUE, Field(<<>>), NoFrame, Field(T4096), NoField, NoVeh, 0, <<>>, FALSE,
          NoField),
     Line(FALSE, NoField, NoFrame, NoField, NoField, NoVeh, 0, <<>>, TRUE, Field(T42)),
     Line(FALSE, NoField, NoFrame, NoField, NoField, NoVeh, 1, <<T5>>, TRUE, Field(T7)),
     Line(FALSE, NoField, NoFrame, NoField, NoField, NoVeh, 0, <<>>, TRUE, Field(<<>>)),
     Line(FALSE, NoField, NoFrame, NoField, NoField, NoVeh, 1, <<T5>>, FALSE, NoField),
     Line(FALSE, Field(T60), NoFrame, NoField, NoField, NoVeh, 0, <<>>, FALSE, NoField)}

\* The captures explored: one performance line alone or after a NETWORK line,
\* and up to MaxLines lines of SmallLines.
Outputs ==
    {<<l>> : l \in PerfLines}
      \cup {<<n, l>> : n \in NetLines, l \in PerfLines}
      \cup (SeqsUpTo(SmallLines, MaxLines) \ {<<>>})

\* None, and the marker that tells a dict from None.
NoData == [ok |-> FALSE]

\* The number of "PktLoss: n/100" entries `PktLoss: ([1-9]\d*)/100` finds.
packet_loss_matches(loss) ==
    Cardinality({i \in 1..Len(loss) :
        /\ loss[i] # <<>>
        /\ loss[i][1] \in Digits \ {"0"}
        /\ regex_run(loss[i], Digits) = loss[i]})

\* group(n) of the frame time match
frame_time_group_shifted(frame, n) ==
    CASE n = 1 -> frame.min [] n = 2 -> frame.max [] n = 3 -> frame.avg

frame_time_group(frame, n) ==
    CASE n = 1 -> frame.avg [] n = 2 -> frame.min [] n = 3 -> frame.max

\* parse_fps_line (src/bot.py:291-322)
parse_fps_line(line) ==
    LET decimal == Digits \cup {"."}
        fps_match == IF line.fps.label THEN regex_run(line.fps.text, decimal) ELSE <<>>
        frame_time_match ==
            /\ line.frame.label
            /\ \A n \in 1..3 :
                  /\ frame_time_group(line.frame, n) # <<>>
                  /\ regex_run(frame_time_group(line.frame, n), decimal)
                        = frame_time_group(line.frame, n)
        mem_match == IF line.mem.label THEN regex_run(line.mem.text, Digits) ELSE <<>>
        ai_match == IF line.ai.label THEN regex_run(line.ai.text, Digits) ELSE <<>>
        veh_match ==
            IF line.veh.label /\ line.veh.paren
                 /\ regex_run(line.veh.text, Digits) = line.veh.text
            THEN line.veh.text ELSE <<>>
        fps == float_(fps_match)
        ft(n) == IF frame_time_match THEN float_(frame_time_group(line.frame, n))
                 ELSE [raised |-> FALSE, value |-> ZeroFloat]
    IN  IF fps_match = <<>> THEN NoData
        ELSE IF fps.raised \/ \E n \in 1..3 : ft(n).raised THEN NoData
        ELSE [ok |-> TRUE,
              fps |-> fps.value,
              frame_time_avg |-> ft(1).value,
              frame_time_min |-> ft(2).value,
              frame_time_max |-> ft(3).value,
              memory |-> IF mem_match # <<>> THEN int_(mem_match) ELSE 0,
              ai |-> IF ai_match # <<>> THEN int_(ai_match) ELSE 0,
              vehicles |-> IF veh_match # <<>> THEN int_(veh_match) ELSE 0,
              total_clients |-> line.clients,
              packet_loss_clients |-> packet_loss_matches(line.loss)]

\* lines[0], the first matching line
earliest(lines) == lines[1]

\* lines[-1]
latest(lines) == lines[Len(lines)]

\* `'NETWORK' in line and 'Players connected:' in line`
IsPlayerLine(l) == l.network /\ l.players.label

\* `line.strip().startswith('DEFAULT') and 'FPS:' in line`
IsFpsLine(l) == l.default /\ l.fps.label

\* Lines 195-213 of monitor_tmux: the player count of the last player line,
\* the parse of the last fps line, and parsed_data['players'].
capture_parse(out) ==
    LET player_lines == SelectSeq(out, IsPlayerLine)
        player_match ==
            IF player_lines = <<>> THEN <<>>
            ELSE regex_run(latest(player_lines).players.text, Digits)
        player_count == IF player_match # <<>> THEN int_(player_match) ELSE 0
        fps_lines == SelectSeq(out, IsFpsLine)
    IN  IF fps_lines = <<>> THEN NoData
        ELSE LET data == parse_fps_line(latest(fps_lines))
             IN  IF data.ok THEN data @@ ("players" :> player_count) ELSE NoData

\* The capture returned: the lines are selected and parsed.
ParseCapture ==
    /\ parse_pc = "captured"
    /\ parsed_data' = capture_parse(output)
    /\ parse_pc' = "parsed"
    /\ UNCHANGED output
    /\ UNCHANGED <<botVars, histVars, cntVars, bmVars, fmtVars, presVars, ocVars, refused>>

\* No capture is looked at.
ParseUnused == output = <<>> /\ parsed_data = NoData /\ parse_pc = "none"

\* ------------------------------------------ the display name of a ban

\* One entry of attributes['identifiers']: its 'type' and 'identifier' as .get
\* reads them ("None": the key is missing or null).
IdTypes == {"name", "steamID", "None"}
IdValues == {"None", "", "alice", "bob"}
IdEntries == [type : IdTypes, identifier : IdValues]
IdentifierLists == SeqsUpTo(IdEntries, MaxIdentifiers)

\* A loop that goes on to the next entry when a name entry has no value.
RECURSIVE first_name_with_value(_)
first_name_with_value(ids) ==
    IF ids = <<>> THEN "None"
    ELSE IF Head(ids).type = "name" /\ Head(ids).identifier \notin {"None", ""}
         THEN Head(ids).identifier
         ELSE first_name_with_value(Tail(ids))

\* The for loop of src/bot.py:147-150: identifier (None before the loop) is
\* the 'identifier' of the first entry of type 'name', where the loop breaks.
RECURSIVE first_name(_)
first_name(ids) ==
    IF ids = <<>> THEN "None"
    ELSE IF Head(ids).type = "name" THEN Head(ids).identifier
         ELSE first_name(Tail(ids))

\* Lines 145-154: the loop, then `if not identifier: identifier = 'Unknown'`.
display_identifier(ids) ==
    LET found == first_name(ids)
    IN  IF found \in {"None", ""} THEN "Unknown" ELSE found

FormatIdentifier ==
    /\ id_pc = "given"
    /\ identifier' = display_identifier(identifiers)
    /\ id_pc' = "named"
    /\ UNCHANGED identifiers
    /\ UNCHANGED <<botVars, histVars, cntVars, bmVars, parseVars, presVars, ocVars, refused>>

\* No ban is being formatted on its own.
FormatUnused == identifiers = <<>> /\ identifier = "None" /\ id_pc = "none"

\* ------------------------------------------- the player count of the presence

NoPresence == -1

\* The captures of these iterations: up to MaxPresenceLines lines of SmallLines.
PresenceCaptures == SeqsUpTo(SmallLines, MaxPresenceLines) \ {<<>>}

\* history of one iteration: how far it came ("skipped": no fps channel,
\* "uncaptured": the capture raised, "failed": no fps line or no parse, "ok"),
\* the player count it parsed, and its update_presence calls.
PresenceTickInit == [parse |-> "none", players |-> 0, calls |-> 0]

\* __init__ (src/bot.py:35): current_players = 0; no activity is set.
PresenceInit ==
    /\ current_players = 0
    /\ presence = NoPresence
    /\ pr_pc = "idle"
    /\ pr_tk = PresenceTickInit
    /\ last_players = 0
    /\ nPresenceTicks = 0

PresenceUnused == PresenceInit

\* A test that holds for every parsed count.
players_any(player_count, current) == TRUE

\* `player_count != self.current_players` (src/bot.py:215)
players_changed(player_count, current) == player_count # current

PresenceFrame ==
    UNCHANGED <<botVars, histVars, cntVars, bmVars, parseVars, fmtVars, ocVars, refused>>

\* One iteration of monitor_tmux up to `await self.update_presence()` (lines
\* 186-217). captured = FALSE: check_output raised. What follows line 217 is
\* the publication and the bans, which Spec follows and which read and write
\* none of these variables.
PresenceTick(captured, out) ==
    /\ pr_pc = "idle"
    /\ nPresenceTicks < MaxPresenceTicks
    /\ nPresenceTicks' = nPresenceTicks + 1
    /\ PresenceFrame
    /\ UNCHANGED presence
    /\ IF config.fps_channel = "None"
       THEN /\ pr_tk' = [PresenceTickInit EXCEPT !.parse = "skipped"]
            /\ UNCHANGED <<current_players, pr_pc, last_players>>
       ELSE IF ~captured
       THEN /\ pr_tk' = [PresenceTickInit EXCEPT !.parse = "uncaptured"]
            /\ UNCHANGED <<current_players, pr_pc, last_players>>
       ELSE LET parsed == capture_parse(out)
            IN  IF ~parsed.ok
                THEN /\ pr_tk' = [PresenceTickInit EXCEPT !.parse = "failed"]
                     /\ UNCHANGED <<current_players, pr_pc, last_players>>
                ELSE /\ last_players' = parsed.players
                     /\ IF players_changed(parsed.players, current_players)
                        THEN /\ current_players' = parsed.players
                             /\ pr_pc' = "presence"
                             /\ pr_tk' = [parse |-> "ok", players |-> parsed.players,
                                          calls |-> 1]
                        ELSE /\ pr_tk' = [parse |-> "ok", players |-> parsed.players,
                                          calls |-> 0]
                             /\ UNCHANGED <<current_players, pr_pc>>

\* update_presence (src/bot.py:272-281): change_presence shows
\* current_players, or raises and the method's except logs it.
update_presence(ok) ==
    /\ pr_pc = "presence"
    /\ PresenceFrame
    /\ presence' = (IF ok THEN current_players ELSE presence)
    /\ pr_pc' = "idle"
    /\ UNCHANGED <<current_players, pr_tk, last_players, nPresenceTicks>>

\* The process is started again: __init__ runs.
PresenceRestart ==
    /\ nPresenceTicks > 0
    /\ PresenceFrame
    /\ current_players' = 0
    /\ presence' = NoPresence
    /\ pr_pc' = "idle"
    /\ pr_tk' = PresenceTickInit
    /\ last_players' = 0
    /\ UNCHANGED nPresenceTicks

\* ------------------------------------------------- OwnerCommands (the cog)

\* load_config of the cog (src/commands/owner_commands.py:20-26): a missing
\* file is created as {"owner_id": None}; the dict is the file's content. A key
\* the file does not have reads as None with .get.
oc_default_config == [owner_id |-> "None", admin_role |-> "None"]

\* A file in which an earlier run saved the owner.
oc_owned_file == [oc_default_config EXCEPT !.owner_id = "u1"]

OwnerCogInit ==
    /\ oc_file \in {oc_default_config, oc_owned_file}
    /\ oc_config = oc_file

\* A process without the OwnerCommands cog.
OwnerCogAbsent == oc_file = oc_default_config /\ oc_config = oc_default_config

\* save_config(self.config) of the cog: the dict was changed in place, then the
\* file is written; a write that raises leaves the file and escapes the handler.
oc_save_config(cfg, wOk) ==
    /\ Disturb(1 + WriteFailure(wOk))
    /\ oc_config' = cfg
    /\ oc_file' = (IF wOk THEN cfg ELSE oc_file)
    /\ UNCHANGED refused

oc_refused(kind, wOk) ==
    /\ wOk
    /\ Disturb(1)
    /\ refused' = kind
    /\ UNCHANGED ocVars

OwnerCogFrame ==
    /\ UNCHANGED <<bmVars, localVars>>
    /\ UNCHANGED <<botVars, histVars>>
    /\ UNCHANGED <<nTicks, nRestart, nClear>>

\* A set-owner that assigns whatever the current owner is.
oc_set_owner_always(user, wOk) ==
    /\ OwnerCogFrame
    /\ oc_save_config([oc_config EXCEPT !.owner_id = user], wOk)

\* OwnerCommands.set_owner (src/commands/owner_commands.py:33-45)
oc_set_owner(user, wOk) ==
    /\ OwnerCogFrame
    /\ IF oc_config.owner_id # "None"
       THEN oc_refused("setowner", wOk)
       ELSE oc_save_config([oc_config EXCEPT !.owner_id = user], wOk)

\* is_user_owner (src/commands/owner_commands.py:12-14)
is_user_owner(user_id) == oc_config.owner_id = user_id

\* OwnerCommands.set_moderator (src/commands/owner_commands.py:59-68)
oc_set_moderator(user, role, wOk) ==
    /\ OwnerCogFrame
    /\ IF ~is_user_owner(user)
       THEN oc_refused("set-moderator", wOk)
       ELSE oc_save_config([oc_config EXCEPT !.admin_role = role], wOk)

\* Nothing of the side state is in use.
SideUnused ==
    ParseUnused /\ FormatUnused /\ PresenceUnused /\ OwnerCogAbsent /\ refused = "none"

\* cog_unload (src/battlemetrics.py:62-65): ban_check_task.cancel() raises
\* CancelledError at the await the task is suspended in. CancelledError is no
\* Exception, so no `except Exception` of check_battlemetrics_bans or
\* process_new_bans catches it: it unwinds to start_ban_check_loop, whose
\* `except asyncio.CancelledError` breaks out of the loop.
cog_unload ==
    /\ bm_pc # "stopped"
    /\ UNCHANGED <<botSide, bm_reply>>
    /\ bm_pc' = "stopped"
    /\ bm_data' = <<>>
    /\ bm_idx' = 0
    /\ most_recent_timestamp' = NoTimestamp
    /\ UNCHANGED <<bm_config, bm_file, bm_sent, nBMTicks, bm_tk>>

\* ------------------------------------------------------------ specification

Tick ==
    \/ \E cap \in Captures, found \in BOOLEAN : TickStart(cap, found)
    \/ \E outcome \in DeleteOutcomes : DeletePrevious(outcome)
    \/ \E ok \in BOOLEAN : SendStatus(ok)
    \/ \E wOk \in BOOLEAN : RecordStatus(wOk)
    \/ FetchFailed
    \/ \E feed \in Feeds : FetchBans(feed)
    \/ \E ok \in BOOLEAN : SendBan(ok)
    \/ \E wOk \in BOOLEAN : RecordBan(wOk)

Command ==
    \/ \E u \in Users, wOk \in BOOLEAN : set_owner(u, wOk)
    \/ \E c \in Channels, wOk \in BOOLEAN : set_fps_channel(c, wOk)
    \/ \E u \in Users, c \in Channels, wOk \in BOOLEAN : set_bans_channel(u, c, wOk)
    \/ \E u \in Users, r \in Roles, wOk \in BOOLEAN : set_admin_role(u, r, wOk)
    \/ \E u \in Users, wOk \in BOOLEAN : set_service(u, "svc2", wOk)
    \/ \E u \in Users, wOk \in BOOLEAN : set_battlemetrics(u, "tok2", "srv2", wOk)
    \/ \E u \in Users, wOk \in BOOLEAN : clear_bans(u, wOk)

\* The bot of src/bot.py; the cog is not loaded.
Init == BotInit /\ BMInit /\ bm_file = bm_default_config /\ SideUnused

Next == Tick \/ Command \/ CrashRestart

Spec == Init /\ [][Next]_vars

BMTick ==
    \/ BMTickStart
    \/ \E status \in BMFailures : BMGetFailed(status)
    \/ \E result \in ValidationResults : BMValidated(result)
    \/ \E feed \in BMFeeds : BMGetBans(feed)
    \/ \E ok \in BOOLEAN, wOk \in BOOLEAN : BMSendBan(ok, wOk)
    \/ \E wOk \in BOOLEAN : BMAfterSend(wOk)

\* The cog of src/battlemetrics.py on its own config file.
InitBM == BotInit /\ file = default_config /\ BMInit /\ SideUnused

NextBM == BMTick \/ BMCommand \/ cog_unload

SpecBM == InitBM /\ [][NextBM]_vars

\* The bot is constructed and monitor_tmux is not running.
BotWaiting ==
    /\ file \in {default_config, configured_file, status_file}
    /\ config = load_config(file)
    /\ last_message_id = constructed_last_message_id(file)
    /\ pc = "stopped"
    /\ perf_ch = "None" /\ new_msg = NoMsg /\ bans_data = <<>> /\ idx = 0
    /\ live = [c \in Channels |-> {}] /\ next_id = 1
    /\ everSent = {} /\ epochSent = {} /\ durable = {} /\ rewrote = FALSE
    /\ allOk = TRUE /\ tk = TickInit /\ call = CallInit
    /\ nTicks = 0 /\ nRestart = 0 /\ nClear = 0 /\ nDisturb = 0

\* monitor_tmux is not part of the run: the cog is an extension of another
\* bot, or only the parse of a capture is looked at.
BotAbsent ==
    /\ BotWaiting
    /\ file = default_config

\* A process in which the cog is not loaded: no ban_check_task exists.
CogAbsent ==
    /\ bm_file = bm_default_config
    /\ bm_config = bm_load_config(bm_file)
    /\ bm_pc = "stopped"
    /\ bm_data = <<>> /\ bm_idx = 0 /\ most_recent_timestamp = NoTimestamp
    /\ bm_sent = <<>> /\ nBMTicks = 0 /\ bm_tk = BMTickInit /\ bm_reply = "none"

\* The two polling loops: the bot of src/bot.py, or the cog in another bot. The
\* loops share no state. tasks.loop and the while loop of start_ban_check_loop
\* resume a suspended iteration whenever its awaited call has an outcome, and
\* start the next iteration when the sleep is over: weak fairness of Tick and
\* of BMTick.
InitLoops == ((BotInit /\ CogAbsent) \/ (BotAbsent /\ BMInit)) /\ SideUnused

NextLoops == Tick \/ BMTick \/ cog_unload

SpecLoops == InitLoops /\ [][NextLoops]_vars /\ WF_vars(Tick) /\ WF_vars(BMTick)

\* Lines 195-213 of monitor_tmux on every capture of Outputs.
InitParse ==
    /\ BotAbsent
    /\ CogAbsent
    /\ output \in Outputs
    /\ parsed_data = NoData
    /\ parse_pc = "captured"
    /\ FormatUnused
    /\ PresenceUnused
    /\ OwnerCogAbsent
    /\ refused = "none"

NextParse == ParseCapture

SpecParse == InitParse /\ [][NextParse]_vars

\* Lines 145-154 of handle_bans on every identifiers list of IdentifierLists.
InitIdentifier ==
    /\ BotAbsent
    /\ CogAbsent
    /\ ParseUnused
    /\ PresenceUnused
    /\ OwnerCogAbsent
    /\ refused = "none"
    /\ identifiers \in IdentifierLists
    /\ identifier = "None"
    /\ id_pc = "given"

NextIdentifier == FormatIdentifier

SpecIdentifier == InitIdentifier /\ [][NextIdentifier]_vars

OwnerCommand ==
    \/ \E u \in Users, wOk \in BOOLEAN : oc_set_owner(u, wOk)
    \/ \E u \in Users, r \in Roles, wOk \in BOOLEAN : oc_set_moderator(u, r, wOk)

\* The command handlers of src/bot.py and of the OwnerCommands cog in sequences
\* of up to MaxCommands, with no iteration of monitor_tmux in between. The two
\* programs share no state.
InitCommands ==
    /\ BotWaiting
    /\ CogAbsent
    /\ ParseUnused
    /\ FormatUnused
    /\ PresenceUnused
    /\ OwnerCogInit
    /\ refused = "none"

NextCommands == Command \/ OwnerCommand

SpecCommands == InitCommands /\ [][NextCommands]_vars

\* The iterations of monitor_tmux up to the presence update, on every capture
\* of PresenceCaptures.
InitPresence ==
    /\ BotWaiting
    /\ CogAbsent
    /\ ParseUnused
    /\ FormatUnused
    /\ OwnerCogAbsent
    /\ refused = "none"
    /\ PresenceInit

NextPresence ==
    \/ \E captured \in BOOLEAN, out \in PresenceCaptures : PresenceTick(captured, out)
    \/ \E ok \in BOOLEAN : update_presence(ok)
    \/ PresenceRestart

SpecPresence == InitPresence /\ [][NextPresence]_vars

\* ------------------------------------------------------------------ claims

\* This step delivers the notification of the ban at idx.
Delivered == pc = "ban_send" /\ pc' = "ban_sent"

IsPrefix(p, q) == Len(p) <= Len(q) /\ SubSeq(q, 1, Len(p)) = p

\* C1: between two resets (clear-bans, process restart) handle_bans delivers a
\* notification only for an id it has not notified since the last reset: no id
\* is notified twice, whatever ids the feed repeats.
C1_NoRepeatedNotification ==
    [][Delivered => bans_data[idx].id \notin epochSent]_vars

\* A later call met a ban it had notified before, in a well-formed entry, and
\* did not notify it again.
C1_Witness ==
    /\ pc = "idle" /\ nTicks = 2 /\ nClear = 0 /\ nRestart = 0
    /\ call.phase = "ended" /\ call.clean /\ call.emitted = <<>>
    /\ call.ids # {}
    /\ call.ids \subseteq Range(call.start) \cap epochSent

\* C3 as stated: over the whole lifetime, crashes and restarts included, every
\* ban id is notified at most once.
C3_AtMostOnceEver ==
    [][Delivered => bans_data[idx].id \notin everSent]_vars

\* C3 amended: an id that a successful write has recorded in the config file is
\* not notified again, in this run or after any restart, until clear-bans.
C3_RecordedNeverRepublished ==
    [][Delivered => bans_data[idx].id \notin durable]_vars

\* After a restart a call met a recorded id again and skipped it.
C3_Witness ==
    /\ pc = "idle" /\ nRestart = 1 /\ nClear = 0
    /\ call.phase = "ended" /\ call.emitted = <<>>
    /\ call.ids # {}
    /\ call.ids \subseteq durable \cap everSent

\* C5: every step of the running process other than the clear-bans command
\* keeps posted_bans as a prefix of its new value (ids are only appended).
C5_PostedBansOnlyGrow ==
    [][(nClear' = nClear /\ nRestart' = nRestart)
          => IsPrefix(config.posted_bans, config'.posted_bans)]_vars

\* handle_bans appended to a list that already held an id.
C5_Witness ==
    /\ Len(config.posted_bans) = 2
    /\ Len(call.start) = 1
    /\ Len(call.emitted) = 1

\* C7: a handle_bans call in which nothing failed notifies exactly the new ids
\* of the response, in feed order, and leaves posted_bans as the list at its
\* start followed by them; so from an empty list the list becomes the ids of
\* the response, and a response whose ids are all recorded notifies nothing
\* and leaves the list unchanged.
C7_ReconcileIdempotent ==
    (call.phase = "ended" /\ call.clean) =>
        /\ call.emitted = call.new
        /\ config.posted_bans = call.start \o call.emitted
        /\ (call.start = <<>> => Range(config.posted_bans) = call.ids)
        /\ (call.ids \subseteq Range(call.start) =>
               call.emitted = <<>> /\ config.posted_bans = call.start)

\* The second reconciliation of a two-ban response: the list at its start is
\* what the first one left, nothing is notified, the list is unchanged.
C7_Witness ==
    /\ pc = "idle" /\ nTicks = 2 /\ call.phase = "ended" /\ call.clean
    /\ Cardinality(call.ids) = 2
    /\ Range(call.start) = call.ids
    /\ call.emitted = <<>>
    /\ config.posted_bans = call.start
    /\ nDisturb = 0

\* C8 as stated: when every delete and every send has succeeded and every tick
\* ran to its end, no channel holds more than one live status message after a
\* tick, the tick deleted at most once, and last_message_id is the live message
\* of the tick that published.
C8_SingleLiveStatus ==
    (pc = "idle" /\ allOk) =>
        /\ \A c \in Channels : Cardinality(live[c]) <= 1
        /\ tk.dels <= 1
        /\ tk.sends <= 1
        /\ (tk.sends = 1 => \E c \in Channels : live[c] = {last_message_id})

\* C9: a publishing tick that finds last_message_id set awaits the delete first;
\* whatever the delete's outcome, the next await is the send; and when the send
\* has returned, last_message_id is the message just sent.
C9_DeleteFailureNeverBlocksSend ==
    [][(nRestart' = nRestart) =>
          /\ (pc = "idle" /\ pc' \in {"delete", "send"} =>
                 pc' = (IF last_message_id # NoMsg THEN "delete" ELSE "send"))
          /\ (pc = "delete" /\ pc' # "delete" => pc' = "send")
          /\ (pc = "sent" /\ pc' # "sent" =>
                 last_message_id' = new_msg /\ new_msg \in live[perf_ch])]_vars

\* A tick whose delete failed with an error other than NotFound sent its message.
C9_Witness ==
    /\ pc = "idle"
    /\ tk.del = "error"
    /\ tk.sends = 1
    /\ last_message_id = next_id - 1
    /\ \E c \in Channels : last_message_id \in live[c]

\* The same after a NotFound.
C9_WitnessNotFound ==
    /\ pc = "idle"
    /\ tk.del = "notfound"
    /\ tk.sends = 1
    /\ last_message_id = next_id - 1

\* C10 as stated: after construction the in-memory last_message_id is the one
\* the config file holds.
C10_RestoredAtStartup ==
    [][nRestart' > nRestart => last_message_id' = file.last_message_id]_vars

\* C2 as stated: process_new_bans delivers a ban only when its timestamp is
\* strictly greater than the cursor LAST_BAN_TIMESTAMP, so a response seen on
\* an earlier tick is not delivered again.
C2_CursorFiltersOldBans ==
    [][Len(bm_sent') > Len(bm_sent) =>
          bm_sent'[Len(bm_sent')].timestamp > bm_config.LAST_BAN_TIMESTAMP]_vars

\* C4 as stated: each delivered ban is durably recorded before the next one is
\* sent, so at no point is more than one delivered ban of the running call
\* still unrecorded (above the persisted cursor).
C4_AtMostOneUnrecorded ==
    bm_pc # "idle" =>
        Cardinality({bm_sent[k].id : k \in {j \in 1..Len(bm_sent) :
            bm_sent[j].timestamp > bm_file.LAST_BAN_TIMESTAMP}}) <= 1

\* C6 as stated: no step lowers the cursor LAST_BAN_TIMESTAMP.
C6_CursorNonDecreasing ==
    [][bm_config'.LAST_BAN_TIMESTAMP >= bm_config.LAST_BAN_TIMESTAMP]_vars

\* C11: when the status send raises, the iteration is over at once: the step
\* leaves last_message_id, the dict and the file as they were and goes to idle
\* without fetch_bans having been called. An iteration that begins with
\* last_message_id naming a message that no longer exists goes to the delete,
\* the delete does not succeed (NotFound, or another error), and the send
\* follows.
C11_SendFailureFailsTick ==
    [][(nRestart' = nRestart) =>
          /\ (pc = "send" /\ pc' \notin {"send", "sent"} =>
                 /\ pc' = "idle"
                 /\ last_message_id' = last_message_id
                 /\ config' = config /\ file' = file
                 /\ live' = live
                 /\ ~tk'.fetched /\ tk'.sends = 0)
          /\ (pc = "idle" /\ pc' \in {"delete", "send"} /\ StaleReference =>
                 pc' = "delete")
          /\ (pc = "delete" /\ pc' # "delete" /\ StaleReference =>
                 tk'.del # "ok" /\ pc' = "send")]_vars

\* Three iterations without any command, restart or failed write: the first
\* published, the second deleted that message and its send failed, the third
\* began with the stale reference, got NotFound and published.
C11_Witness ==
    /\ pc = "idle" /\ nTicks = 3 /\ nDisturb = 0
    /\ tk.stale /\ tk.del = "notfound" /\ tk.sends = 1
    /\ \E c \in Channels : live[c] = {last_message_id}

\* C12: whatever fails inside an iteration, the loop comes back to idle, and
\* while fewer than MaxTicks (MaxBMTicks) iterations were started and the loop
\* was not cancelled, the next iteration starts.
C12_LoopsNeverStopOnFailure ==
    /\ (pc \notin {"idle", "stopped"}) ~> (pc = "idle")
    /\ \A n \in 0..(MaxTicks - 1) : (nTicks = n) ~> (nTicks > n \/ pc = "stopped")
    /\ (bm_pc \notin {"idle", "stopped"}) ~> (bm_pc \in {"idle", "stopped"})
    /\ \A n \in 0..(MaxBMTicks - 1) :
           (nBMTicks = n) ~> (nBMTicks > n \/ bm_pc = "stopped")

\* The status send of the first iteration failed (no message to delete in the
\* second one although the first one reached its send), and the second
\* iteration is under way.
C12_Witness ==
    /\ pc = "send" /\ nTicks = 2 /\ nDisturb = 0
    /\ ~allOk /\ tk.dels = 0 /\ last_message_id = NoMsg

\* C13 as stated: every iteration that ends while token, server id and bans
\* channel are configured has called fetch_bans, whatever became of the
\* capture, the parse and the status publication.
C13_BansFetchedEveryTick ==
    [][(/\ nRestart' = nRestart
        /\ pc' = "idle"
        /\ (pc # "idle" \/ nTicks' > nTicks)
        /\ BansConfigured(config)) => tk'.fetched]_vars

\* C14: an iteration of either loop starts only while the loop is idle: no
\* earlier iteration is suspended in an await, and no call of an earlier
\* iteration is outstanding.
C14_OneTickAtATime ==
    [][/\ (nTicks' > nTicks => pc = "idle" /\ new_msg = NoMsg /\ bans_data = <<>>)
       /\ (nBMTicks' > nBMTicks => bm_pc = "idle" /\ bm_data = <<>>)]_vars

\* The second iteration is suspended in a ban notification after it published
\* its status message; the first iteration is over.
C14_Witness ==
    /\ nTicks = 2 /\ pc = "ban_send" /\ tk.sends = 1
    /\ Cardinality(live[perf_ch]) = 1

\* C15 as stated: the ban check loop stops only between two iterations; a
\* cancellation that arrives while an iteration is suspended in a call lets
\* the iteration finish first.
C15_CancelOnlyBetweenTicks ==
    [][bm_pc' = "stopped" => bm_pc \in {"idle", "stopped"}]_vars

\* C16 as stated: while an iteration of monitor_tmux is suspended in an await,
\* no step other than the iteration's own changes posted_bans or
\* last_message_id or writes the config file.
C16_OnlyTickMutatesState ==
    [][(pc # "idle" /\ pc' = pc /\ idx' = idx /\ nRestart' = nRestart) =>
          /\ config'.posted_bans = config.posted_bans
          /\ last_message_id' = last_message_id
          /\ file' = file]_vars

\* The position of the last line of out that satisfies P (0: there is none).
LastIndex(out, P(_)) ==
    IF \E i \in 1..Len(out) : P(out[i])
    THEN CHOOSE i \in 1..Len(out) :
             P(out[i]) /\ \A j \in (i + 1)..Len(out) : ~P(out[j])
    ELSE 0

\* The line has the fps pattern `FPS: ([\d.]+)`.
HasFpsPattern(l) == l.fps.label /\ regex_run(l.fps.text, Digits \cup {"."}) # <<>>

\* C17 as stated: the parse of the selected performance line fails exactly
\* when the line lacks the fps pattern, and when it succeeds every field whose
\* pattern is missing is 0.
C17_FailsOnlyWithoutFps ==
    LET k == LastIndex(output, IsFpsLine)
        l == output[k]
    IN  (parse_pc = "parsed" /\ k # 0) =>
            /\ parsed_data.ok <=> HasFpsPattern(l)
            /\ parsed_data.ok =>
                   /\ ~l.frame.label =>
                          /\ parsed_data.frame_time_avg = ZeroFloat
                          /\ parsed_data.frame_time_min = ZeroFloat
                          /\ parsed_data.frame_time_max = ZeroFloat
                   /\ ~l.mem.label => parsed_data.memory = 0
                   /\ ~l.ai.label => parsed_data.ai = 0
                   /\ ~l.veh.label => parsed_data.vehicles = 0
                   /\ LastIndex(output, IsPlayerLine) = 0 => parsed_data.players = 0

\* The player count written on a NETWORK line (0 without a number).
PlayersOn(l) ==
    IF regex_run(l.players.text, Digits) # <<>>
    THEN int_(regex_run(l.players.text, Digits)) ELSE 0

\* C18: the snapshot is the parse of the last performance-summary line with
\* the player count of the last NETWORK line, whatever the other lines say;
\* when the last performance line does not parse there is no snapshot.
C18_LastLinesOnly ==
    LET k == LastIndex(output, IsFpsLine)
        p == LastIndex(output, IsPlayerLine)
        d == parse_fps_line(output[k])
    IN  parse_pc = "parsed" =>
            parsed_data =
                (IF k = 0 \/ ~d.ok THEN NoData
                 ELSE d @@ ("players" :> (IF p = 0 THEN 0 ELSE PlayersOn(output[p]))))

\* A capture with two performance lines that parse to different values and two
\* NETWORK lines with different counts was parsed.
C18_Witness ==
    LET f == SelectSeq(output, IsFpsLine)
        n == SelectSeq(output, IsPlayerLine)
    IN  /\ parse_pc = "parsed" /\ parsed_data.ok
        /\ Len(f) = 2 /\ Len(n) = 2
        /\ parse_fps_line(f[1]).ok
        /\ parse_fps_line(f[1]) # parse_fps_line(f[2])
        /\ PlayersOn(n[1]) # PlayersOn(n[2])

RECURSIVE Sum(_)
Sum(ns) == IF ns = <<>> THEN 0 ELSE Head(ns) + Sum(Tail(ns))

SumOver(out, F(_)) == Sum([i \in 1..Len(out) |-> F(out[i])])

ClientTags(l) == l.clients

\* The PktLoss entries of a line whose numerator is not zero.
LossyClients(l) == Cardinality({i \in 1..Len(l.loss) : int_(l.loss[i]) # 0})

\* C19 as stated: total_clients and packet_loss_clients count the client tags
\* and the lossy PktLoss entries of all lines of the capture.
C19_CountsOverWholeCapture ==
    (parse_pc = "parsed" /\ parsed_data.ok) =>
        /\ parsed_data.total_clients = SumOver(output, ClientTags)
        /\ parsed_data.packet_loss_clients = SumOver(output, LossyClients)

\* The number a numeral of digits with at most one dot denotes.
Numeral(t) ==
    LET dot == {i \in 1..Len(t) : t[i] = "."}
    IN  FloatOf(int_(SelectSeq(t, IsDigit)),
                IF dot = {} THEN 0 ELSE Len(t) - (CHOOSE i \in dot : TRUE))

WellFormed(t) ==
    /\ t # <<>>
    /\ \A i \in 1..Len(t) : t[i] \in Digits \cup {"."}
    /\ Cardinality({i \in 1..Len(t) : t[i] = "."}) <= 1
    /\ \E i \in 1..Len(t) : t[i] \in Digits

\* The capture of the end-to-end example.
ExampleCapture ==
    <<Line(FALSE, NoField, NoFrame, NoField, NoField, NoVeh, 0, <<>>, TRUE, Field(T42)),
      Line(TRUE, Field(T59_8), Frame(T12_1, T5_0, T30_2), Field(T4096), Field(T10),
           Veh(T3, TRUE), 2, <<T5>>, FALSE, NoField)>>

\* C20: for a capture of one NETWORK line with its count and one performance
\* line on which every number is written out, with the client tags and
\* PktLoss entries on the performance line, each field of the snapshot is the
\* number written after its label, players is the count of the NETWORK line,
\* total_clients the number of client tags and packet_loss_clients the number
\* of PktLoss entries with a numerator other than 0; the example capture
\* gives 59.8, 12.1, 30.2, 4096, 10, 3, 42, 2 and 1.
C20_FieldsAsWritten ==
    /\ (/\ parse_pc = "parsed"
        /\ Len(output) = 2
        /\ IsPlayerLine(output[1]) /\ ~IsFpsLine(output[1])
        /\ IsFpsLine(output[2]) /\ ~IsPlayerLine(output[2])
        /\ WellFormed(output[1].players.text)
        /\ output[1].clients = 0 /\ output[1].loss = <<>>
        /\ WellFormed(output[2].fps.text)
        /\ output[2].frame.label
        /\ \A n \in 1..3 : WellFormed(frame_time_group_shifted(output[2].frame, n))
        /\ output[2].mem.label /\ output[2].ai.label
        /\ output[2].veh.label /\ output[2].veh.paren)
       => /\ parsed_data.ok
          /\ parsed_data.fps = Numeral(output[2].fps.text)
          /\ parsed_data.frame_time_avg = Numeral(output[2].frame.avg)
          /\ parsed_data.frame_time_min = Numeral(output[2].frame.min)
          /\ parsed_data.frame_time_max = Numeral(output[2].frame.max)
          /\ parsed_data.memory = int_(output[2].mem.text)
          /\ parsed_data.ai = int_(output[2].ai.text)
          /\ parsed_data.vehicles = int_(output[2].veh.text)
          /\ parsed_data.players = int_(output[1].players.text)
          /\ parsed_data.total_clients = SumOver(output, ClientTags)
          /\ parsed_data.packet_loss_clients = SumOver(output, LossyClients)
    /\ (parse_pc = "parsed" /\ output = ExampleCapture)
       => /\ parsed_data.fps = [m |-> 598, e |-> 1]
          /\ parsed_data.frame_time_avg = [m |-> 121, e |-> 1]
          /\ parsed_data.frame_time_max = [m |-> 302, e |-> 1]
          /\ parsed_data.memory = 4096
          /\ parsed_data.ai = 10
          /\ parsed_data.vehicles = 3
          /\ parsed_data.players = 42
          /\ parsed_data.total_clients = 2
          /\ parsed_data.packet_loss_clients = 1

\* The example capture was parsed.
C20_Witness ==
    parse_pc = "parsed" /\ output = ExampleCapture /\ parsed_data.ok

\* C21: a check whose GET was answered 403 makes one validation call, sends
\* no ban and leaves the cursor, the config and its file as they were (only
\* a configuration command run meanwhile changes them); when
\* the validation call is over, whatever its result, the check returns and the
\* loop sleeps its interval like after any other check, the next check ready
\* to start (the cog not being unloaded meanwhile).
C21_ForbiddenOnlyValidates ==
    /\ []((bm_tk.status = "403" /\ bm_pc = "idle" /\ nBMTicks < MaxBMTicks)
             => ENABLED BMTickStart)
    /\ [][(bm_tk'.status = "403" =>
               /\ bm_tk'.validations = 1
               /\ bm_sent' = <<>>
               /\ bm_pc' \in {"validate", "idle", "stopped"}
               /\ (BMCommand \/ (bm_config' = bm_config /\ bm_file' = bm_file)))
           /\
           ((bm_pc = "validate" /\ bm_pc' \notin {"validate", "stopped"}) =>
               /\ bm_pc' = "idle"
               /\ bm_data' = <<>>
               /\ most_recent_timestamp' = NoTimestamp
               /\ nBMTicks' = nBMTicks)]_vars

\* A check started after a check that was answered 403 and validated once.
C21_Witness ==
    /\ nBMTicks = 2 /\ bm_pc = "idle"
    /\ bm_tk.status = "403" /\ bm_tk.validations = 1
    /\ bm_sent = <<>>

\* This step is the tick resuming from pc with a save_config whose write failed.
WriteFailedAt(at) ==
    pc = at /\ pc' # at /\ nDisturb' > nDisturb /\ nRestart' = nRestart

C23_SetOwnerOnlyOnce ==
    [][/\ (config.owner_id # "None" /\ nRestart' = nRestart) =>
              config'.owner_id = config.owner_id
       /\ oc_config.owner_id # "None" => oc_config'.owner_id = oc_config.owner_id
       /\ \A u \in Users, wOk \in BOOLEAN :
              /\ (set_owner(u, wOk) /\ config.owner_id # "None") =>
                     config' = config /\ file' = file
              /\ (oc_set_owner(u, wOk) /\ oc_config.owner_id # "None") =>
                     oc_config' = oc_config /\ oc_file' = oc_file]_vars

\* The bot started from the default config, a set-owner named "u1" and was
\* saved, and a later set-owner was refused.
C23_Witness ==
    /\ refused = "set-owner"
    /\ config.owner_id = "u1" /\ file.owner_id = "u1"
    /\ \A f \in {"fps_channel", "bans_channel", "admin_role",
                   "battlemetrics_token"} : file[f] = "None"

\* C24: the display identifier is the 'identifier' of the entry of type "name"
\* at the least position of the list, and "Unknown" when no entry has that
\* type or that entry has no identifier value.
C24_FirstNameOrUnknown ==
    LET names == {i \in 1..Len(identifiers) : identifiers[i].type = "name"}
        first == CHOOSE i \in names : \A j \in names : i <= j
    IN  id_pc = "named" =>
            identifier =
                (IF names = {} \/ identifiers[first].identifier \in {"None", ""}
                 THEN "Unknown" ELSE identifiers[first].identifier)

\* A list whose first entry is of another type and which has two name entries
\* with different values was formatted.
C24_Witness ==
    /\ id_pc = "named"
    /\ Len(identifiers) = 3
    /\ identifiers[1].type = "steamID"
    /\ identifiers[2] = [type |-> "name", identifier |-> "alice"]
    /\ identifiers[3] = [type |-> "name", identifier |-> "bob"]
    /\ identifier = "alice"

\* The positions after i of the events of feed that the loop has to attempt
\* with the list `posted`: the id is not recorded and the event formats.
Eligible(feed, i, posted) ==
    {k \in (i + 1)..Len(feed) : feed[k].id \notin posted /\ feed[k].ok}

\* handle_bans goes on after position i: it attempts the first eligible event,
\* and returns when there is none.
GoesOnAfter(i, posted) ==
    LET rest == Eligible(bans_data, i, posted)
    IN  IF rest = {}
        THEN pc' = "idle"
        ELSE /\ pc' = "ban_send"
             /\ bans_data' = bans_data
             /\ idx' \in rest /\ \A k \in rest : idx' <= k

\* C25: a send that raises leaves posted_bans and the file as they are and the
\* loop goes on with the next event it has to attempt, as it does after a
\* recorded one; an event whose formatting raises is never notified and never
\* recorded; and a call attempts first the first event of the response that
\* formats and whose id is not in posted_bans, so a failed event is attempted
\* again by the next call whose response holds it.
C25_FailureIsolatedToEvent ==
    [][(nRestart' = nRestart) =>
          /\ (pc = "ban_send" /\ pc' # "ban_sent" /\ ~(pc' = pc /\ idx' = idx)) =>
                 /\ config' = config
                 /\ file' = file
                 /\ bans_data[idx].id \notin PostedIds(config')
                 /\ GoesOnAfter(idx, PostedIds(config))
          /\ (pc = "ban_sent" /\ pc' # "ban_sent") =>
                 GoesOnAfter(idx, PostedIds(config'))
          /\ (pc = "fetch" /\ pc' = "ban_send") =>
                 /\ Eligible(bans_data', 0, PostedIds(config)) # {}
                 /\ idx' \in Eligible(bans_data', 0, PostedIds(config))
                 /\ \A k \in Eligible(bans_data', 0, PostedIds(config)) : idx' <= k
          /\ Delivered => bans_data[idx].ok
          /\ \A b \in BanIds :
                 (b \in PostedIds(config') /\ b \notin PostedIds(config)) =>
                     pc = "ban_sent" /\ bans_data[idx].id = b]_vars

\* The send of the first event of a two-event response raised, nothing was
\* recorded, and the call is suspended in the send of the second event.
C25_Witness ==
    /\ pc = "ban_send" /\ idx = 2 /\ nDisturb = 0
    /\ Len(bans_data) = 2
    /\ bans_data[1].ok /\ bans_data[1].id # bans_data[2].id
    /\ call.start = <<>> /\ call.emitted = <<>> /\ ~call.clean
    /\ config.posted_bans = <<>>

\* The caller is not the configured owner.
NotOwner(u) == config.owner_id = "None" \/ config.owner_id # u

\* The caller does not carry the configured admin role.
LacksAdminRole(u) ==
    config.admin_role = "None" \/ config.admin_role \notin member_roles[u]

\* C26: a privileged command whose caller fails the permission check changes
\* neither the in-memory config nor the config file: set-admin-role,
\* set-battlemetrics and clear-bans by a non-owner, set-service by a caller
\* without the admin role, set-bans-channel by a caller who is neither; and
\* while no owner is set, is_owner is false for every user, so each owner-only
\* command is refused whoever calls it.
C26_RefusedCommandChangesNothing ==
    /\ [](config.owner_id = "None" => \A u \in Users : ~is_owner(u))
    /\ [][\A u \in Users, wOk \in BOOLEAN :
              /\ (NotOwner(u) /\
                    (\/ \E r \in Roles : set_admin_role(u, r, wOk)
                     \/ set_battlemetrics(u, "tok2", "srv2", wOk)
                     \/ clear_bans(u, wOk)))
                  => (config' = config /\ file' = file /\ refused' = "privileged")
              /\ (LacksAdminRole(u) /\ set_service(u, "svc2", wOk))
                  => (config' = config /\ file' = file /\ refused' = "privileged")
              /\ (NotOwner(u) /\ LacksAdminRole(u) /\
                    (\E c \in Channels : set_bans_channel(u, c, wOk)))
                  => (config' = config /\ file' = file /\ refused' = "privileged")]_vars

\* No owner was ever set, and an owner-only or admin-only command was refused.
C26_Witness ==
    /\ refused = "privileged"
    /\ config.owner_id = "None" /\ file.owner_id = "None"

\* Steps in which save_config is called and its write succeeds: the two saves
\* of the tick, and every command whose caller passes the handler's test.
SavedByTick == RecordStatus(TRUE) \/ RecordBan(TRUE)

SavedByCommand ==
    \/ \E u \in Users : config.owner_id = "None" /\ set_owner(u, TRUE)
    \/ \E c \in Channels : set_fps_channel(c, TRUE)
    \/ \E u \in Users, c \in Channels :
           (~NotOwner(u) \/ ~LacksAdminRole(u)) /\ set_bans_channel(u, c, TRUE)
    \/ \E u \in Users, r \in Roles : ~NotOwner(u) /\ set_admin_role(u, r, TRUE)
    \/ \E u \in Users : ~LacksAdminRole(u) /\ set_service(u, "svc2", TRUE)
    \/ \E u \in Users : ~NotOwner(u) /\ set_battlemetrics(u, "tok2", "srv2", TRUE)
    \/ \E u \in Users : ~NotOwner(u) /\ clear_bans(u, TRUE)

\* C27: after every successful save_config call, from the tick or from a
\* command handler, the config file equals the in-memory config and its
\* last_message_id field equals the in-memory last_message_id; a command
\* handler that saves writes the current in-memory last_message_id over the
\* persisted one; and the file changes in no other step.
C27_SaveWritesMemoryWhole ==
    [][ /\ ((SavedByTick \/ SavedByCommand) =>
               (/\ file' = config'
                /\ file'.last_message_id = last_message_id'
                /\ config'.last_message_id = last_message_id'))
        /\ (SavedByCommand =>
               (/\ last_message_id' = last_message_id
                /\ file'.last_message_id = last_message_id))
        /\ (file' # file => (SavedByTick \/ SavedByCommand)) ]_vars

\* A command's save replaced the persisted last_message_id by the different
\* value held in memory, and the file is the in-memory config.
C27_Witness ==
    /\ rewrote
    /\ file = config
    /\ file.last_message_id = last_message_id

\* process_new_bans reaches its save_config call in this step: the step ends
\* the loop over the response with a timestamp collected.
SavesCursor(wOk) ==
    \/ /\ BMAfterSend(wOk)
       /\ bm_idx = Len(bm_data)
    \/ /\ BMSendBan(FALSE, wOk)
       /\ bm_idx = Len(bm_data)
       /\ most_recent_timestamp # NoTimestamp

\* C28: BattleMetrics.save_config changes the in-memory config only together
\* with the file. When the write fails, self.config keeps its previous value,
\* neither the cursor nor a setting advancing in memory, and the caller gets
\* False; when it succeeds, self.config and the file both become the updated
\* config and the caller gets True.
C28_SaveAllOrNothing ==
    /\ [](bm_config = bm_file)
    /\ [][ /\ (\/ set_bm_token("tok2", FALSE)
                \/ set_org_id("org", FALSE)
                \/ set_ban_channel("c2", FALSE))
               => (bm_config' = bm_config /\ bm_file' = bm_file /\ bm_reply' = "failed")
           /\ (set_bm_token("tok2", TRUE) =>
                  (/\ bm_config' = [bm_config EXCEPT !.BATTLEMETRICS_TOKEN = "tok2"]
                   /\ bm_file' = bm_config'
                   /\ bm_reply' = "updated"))
           /\ (set_org_id("org", TRUE) =>
                  (/\ bm_config' = [bm_config EXCEPT !.ORGANIZATION_ID = "org"]
                   /\ bm_file' = bm_config'
                   /\ bm_reply' = "updated"))
           /\ (set_ban_channel("c2", TRUE) =>
                  (/\ bm_config' = [bm_config EXCEPT !.DISCORD_BAN_CHANNEL = "c2"]
                   /\ bm_file' = bm_config'
                   /\ bm_reply' = "updated"))
           /\ (SavesCursor(FALSE) => (bm_config' = bm_config /\ bm_file' = bm_file))
           /\ (SavesCursor(TRUE) =>
                  (/\ bm_config'.LAST_BAN_TIMESTAMP # NoTimestamp
                   /\ bm_config'.LAST_BAN_TIMESTAMP \in
                          {bm_sent'[i].timestamp : i \in 1..Len(bm_sent')}
                   /\ bm_file' = bm_config')) ]_vars

\* A configuration command was answered with the failure, and a check that
\* delivered bans ended with the cursor still unset in memory and in the file.
C28_Witness ==
    /\ bm_reply = "failed"
    /\ bm_pc = "idle" /\ bm_sent # <<>>
    /\ bm_config.LAST_BAN_TIMESTAMP = NoTimestamp
    /\ bm_file.LAST_BAN_TIMESTAMP = NoTimestamp

\* C29: from the default config of the cog, whatever configuration commands
\* are run, check_battlemetrics_bans never passes its completeness guard: no
\* command sets SERVER_ID, which the guard requires, so every check returns
\* before the GET, also when bmdiagnose reports the configuration complete.
C29_GuardNeverPassesFromDefault ==
    /\ [](bm_config.SERVER_ID = "" =>
             (/\ bm_pc \in {"idle", "stopped"}
              /\ bm_tk.status \in {"none", "skipped"}
              /\ bm_sent = <<>>))
    /\ [][ /\ bm_config'.SERVER_ID = bm_config.SERVER_ID
           /\ (BMTickStart /\ bm_config.SERVER_ID = "") =>
                  (bm_pc' = "idle" /\ bm_tk'.status = "skipped") ]_vars

\* From the default config the three commands made the configuration complete
\* for bmdiagnose, and the check that began afterwards skipped the fetch.
C29_Witness ==
    /\ bm_config.SERVER_ID = ""
    /\ bm_diagnose_complete(bm_config)
    /\ bm_tk.diagnosed /\ bm_tk.status = "skipped"
    /\ bm_pc = "idle"

\* C30: current_players is the player count of the last iteration whose parse
\* succeeded, 0 before any; an iteration calls update_presence, once, exactly
\* when its parse succeeded with a player count other than current_players;
\* an iteration that is skipped, captures nothing or parses nothing, and the
\* return of update_presence, leave current_players as it was.
C30_CurrentPlayersFollowsParse ==
    /\ [](current_players = last_players)
    /\ [](pr_tk.calls \in {0, 1} /\ (pr_pc = "presence" => pr_tk.calls = 1))
    /\ [][ /\ (nPresenceTicks' > nPresenceTicks) =>
                 (/\ (pr_tk'.calls = 1) <=>
                         (pr_tk'.parse = "ok" /\ pr_tk'.players # current_players)
                  /\ (pr_pc' = "presence") <=> (pr_tk'.calls = 1)
                  /\ (pr_tk'.parse = "ok" =>
                         (current_players' = pr_tk'.players
                            /\ last_players' = pr_tk'.players))
                  /\ (pr_tk'.parse # "ok" =>
                         (current_players' = current_players
                            /\ last_players' = last_players)))
           /\ (pr_pc = "presence" /\ pr_pc' = "idle" /\ pr_tk' = pr_tk) =>
                 (/\ current_players' = current_players
                  /\ presence' \in {presence, current_players}) ]_vars

\* An iteration showed a positive player count, and the last of the
\* iterations parsed nothing: the count is kept.
C30_Witness ==
    /\ nPresenceTicks = 3
    /\ pr_tk.parse = "failed"
    /\ current_players > 0
    /\ presence = current_players

====
